---------------------------- MODULE Spec2Model ----------------------------
(***************************************************************************)
(* A model of the scriptie API server (src/scriptie/server.py): the        *)
(* mapping of running scripts, the parallel mapping of temporary           *)
(* directories, the deferred cleanup tasks, the request handlers and the   *)
(* application's on_cleanup handler, on asyncio's single-threaded          *)
(* cooperative scheduler: every action is the code that runs between two   *)
(* suspension points (await) of one task.                                  *)
(*                                                                         *)
(* scriptie/scripts.py (RunningScript) is not among the sources; what the  *)
(* server needs of it is modelled from spec.md sections 4.2-4.4 and those  *)
(* definitions say so.                                                     *)
(***************************************************************************)
EXTENDS Integers, Sequences, FiniteSets, TLC

\* ------------------------------------------------------------------ bounds
\* Executions accepted by POST /scripts/{script} in one behaviour.
MaxScripts == 2
\* Parts of one POST body.
MaxParts == 1
\* Directories on disk at one time that rejected POSTs have left.
MaxGarbage == 1
\* Handlers suspended in rs.kill() on one execution at a time.
MaxConc == 1
\* Executions of the specifications that follow one execution's slots.
MaxSlotScripts == 1
\* Long-poll requests in one behaviour.
MaxWaiters == 2
\* Lines one child writes.
MaxLines == 2
\* Executions of the specification that follows the running list.
MaxListScripts == 3
\* The last reading of the wall clock.
MaxTime == 1
\* Parts of one POST body, executions and directories left by rejected
\* POSTs in the specification that follows the argument names.
MaxArgParts == 2
MaxArgScripts == 1
MaxArgGarbage == 2
\* Commands one client sends on its connection to /running/ws.
MaxWsCommands == 2
\* DELETE handlers suspended in rs.kill() on one execution at a time in the
\* specification that follows the races for its scratch directories.
MaxRaceConc == 2
\* Lines a child writes to each of its two streams in the specification
\* that follows the demultiplexer.
MaxStreamLines == 2

\* --------------------------------------------------------------- constants
\* server.py:133, in the unit of time of this model: one Tick is the
\* 24 * 60 * 60 seconds of the delay.
CLEANUP_DELAY == 1
\* The signal kill() sends; the return code of a killed child is -SIGTERM.
SIGTERM == 15

\* Python's None, and a value that is set
None == <<>>
Some(x) == <<x>>

VARIABLES
    running_scripts,  \* app["running_scripts"]: the ids, in insertion order
    temporary_dirs,   \* app["temporary_dirs"]: id -> list of directories
    cleanup_tasks,    \* app["cleanup_tasks"]: list of the task states
    rs,               \* every RunningScript object ever made, by id
    disk,             \* the temporary directories that exist on disk
    garbage,          \* directories on disk whose TemporaryDirectory object
                      \* nothing refers to any more (how many)
    age,              \* id -> ticks since its return code was set
    now,              \* the wall clock (datetime.now)
    deleting,         \* id -> DELETE handlers suspended in rs.kill()
    killing,          \* id -> POST kill handlers suspended in rs.kill()
    sd,               \* the on_cleanup handler of make_app
    waiters,          \* the long-poll handlers, in order of arrival
    deleted,          \* ids a DELETE has answered 200 for
    posted,           \* the last POST /scripts/ that was followed: the
                      \* request and the status of its response
    wsconn,           \* one connection to /running/ws: its commands in
                      \* flight, those cancelled and the replies sent
    pipes             \* the lines a child has written to its stdout and
                      \* to its stderr, and the order in which the readers
                      \* have taken them

supVars == <<running_scripts, temporary_dirs, cleanup_tasks, disk, garbage,
             age, now, posted, wsconn, pipes, deleting, killing, sd, deleted>>
vars == <<running_scripts, temporary_dirs, cleanup_tasks, rs, disk, garbage,
          age, now, posted, wsconn, pipes, deleting, killing, sd, waiters,
          deleted>>

\* ----------------------------------------------------------------- helpers
\* The two streams of a child that are read.
Streams == {"stdout", "stderr"}

Ids == 1..MaxScripts

Range(s) == {s[i] : i \in 1..Len(s)}

RECURSIVE SeqRemove(_, _)
SeqRemove(s, x) ==
    IF s = <<>> THEN <<>>
    ELSE IF Head(s) = x THEN SeqRemove(Tail(s), x)
    ELSE <<Head(s)>> \o SeqRemove(Tail(s), x)

Min(a, b) == IF a < b THEN a ELSE b
Max(a, b) == IF a > b THEN a ELSE b

\* DictPop on a mapping that fills the place of the entry taken out with its
\* last entry.
DictPopSwap(d, k) ==
    IF \E p \in 1..(Len(d) - 1) : d[p] = k
    THEN LET p == CHOOSE q \in 1..(Len(d) - 1) : d[q] = k IN
         [q \in 1..(Len(d) - 1) |-> IF q = p THEN d[Len(d)] ELSE d[q]]
    ELSE SeqRemove(d, k)

\* dict.pop(key, None) on the insertion-ordered mapping of ids
DictPop(d, k) == SeqRemove(d, k)

\* dict.pop(key, []) on temporary_dirs: the value taken out
DirsOf(td, k) == IF k \in DOMAIN td THEN td[k] ELSE <<>>
DirsPop(td, k) == [i \in DOMAIN td \ {k} |-> td[i]]

\* running_scripts.get(id)
Lookup(id) == id \in Range(running_scripts)

Exited(id) == rs[id].return_code # None


\* ------------------------------------------------------- POST body parsing
NoName == <<"none", 0>>
ArgName(n) == <<"arg", n>>
OtherName == <<"other", 0>>
PartNames(maxParts) ==
    {NoName, OtherName} \cup {ArgName(n) : n \in 0..maxParts}

\* One part of a body: its name (part.name is None: NoName), whether it has
\* a filename (a file upload) and, for a value part, its text.  A body of
\* maxParts parts can hold as many different texts; what an uploaded file
\* holds is never looked at.
Parts(maxParts) ==
    {p \in [name : PartNames(maxParts), file : BOOLEAN, text : 1..maxParts] :
        p.file => p.text = 1}

BoundedSeq(S, n) == UNION {[1..k -> S] : k \in 0..n}

\* request.content_type, with the parts an urlencoded form can hold
Requests(maxParts) ==
    {r \in [ctype : {"form", "multipart", "other"},
            parts : BoundedSeq(Parts(maxParts), maxParts)] :
        r.ctype = "form" =>
            \A i \in 1..Len(r.parts) :
                ~r.parts[i].file /\ r.parts[i].name # NoName}

Put(f, k, v) == [x \in DOMAIN f \cup {k} |-> IF x = k THEN v ELSE f[x]]

\* args_by_name.update(await request.post()) (server.py:184): dict.update
\* asks the multidict for its keys and reads each with [], which gives the
\* first value held under a name that was sent more than once.
RECURSIVE UpdateFromPost(_, _)
UpdateFromPost(parts, byname) ==
    IF parts = <<>> THEN byname
    ELSE LET p == Head(parts) IN
         UpdateFromPost(Tail(parts),
                        IF p.name \in DOMAIN byname THEN byname
                        ELSE Put(byname, p.name, <<"text", 0, p.text>>))

\* The loop over the parts (server.py:186-202): args_by_name and temp_dirs
\* after it, and whether it raised HTTPBadRequest at an unnamed part.  A file
\* part makes a fresh TemporaryDirectory on disk (named here by the request
\* nd that made it and its place among that request's directories); a value
\* part contributes its text.  A later part replaces an earlier one of the
\* same name.
RECURSIVE Collect(_, _, _, _)
Collect(parts, byname, dirs, nd) ==
    IF parts = <<>> THEN [ok |-> TRUE, byname |-> byname, dirs |-> dirs]
    ELSE LET p == Head(parts) IN
         IF p.name = NoName
         THEN [ok |-> FALSE, byname |-> byname, dirs |-> dirs]
         ELSE IF ~p.file
         THEN Collect(Tail(parts), Put(byname, p.name, <<"text", 0, p.text>>),
                      dirs, nd)
         ELSE LET d == <<nd, Len(dirs) + 1>> IN
              Collect(Tail(parts), Put(byname, p.name, <<"path">> \o d),
                      Append(dirs, d), nd)

\* server.py:183-205
CollectArgs(req, nd) ==
    CASE req.ctype = "form" ->
            [ok |-> TRUE, byname |-> UpdateFromPost(req.parts, <<>>),
             dirs |-> <<>>]
      [] req.ctype = "multipart" -> Collect(req.parts, <<>>, <<>>, nd)
      [] OTHER -> [ok |-> TRUE, byname |-> <<>>, dirs |-> <<>>]

\* server.py:208-214: arg0, arg1, ... up to the first gap
RECURSIVE OrderArgs(_, _)
OrderArgs(byname, n) ==
    IF ArgName(n) \in DOMAIN byname
    THEN <<byname[ArgName(n)]>> \o OrderArgs(byname, n + 1)
    ELSE <<>>

\* What is left over when every name of the form arg<n> is taken for an
\* argument, whether or not the indices before n were given.
LeftOverNamed(byname) ==
    {k \in DOMAIN byname : k[1] # "arg"}

\* server.py:217: what the loop above left in args_by_name
LeftOver(byname) ==
    DOMAIN byname \ {ArgName(n) : n \in 0..(Len(OrderArgs(byname, 0)) - 1)}

\* The request is answered 400 (server.py:188 or server.py:218).
BadRequest(req, nd) ==
    LET c == CollectArgs(req, nd) IN ~c.ok \/ LeftOver(c.byname) # {}

\* ------------------------------------------------- RunningScript (scripts.py)
\* RunningScript(script, args): spec.md 4.4, construction.
NewRunningScript(args, t) ==
    [args |-> args, start_time |-> t, end_time |-> None, return_code |-> None,
     output |-> <<>>, residue |-> <<>>, progress |-> <<0, 0>>, status |-> "",
     sig |-> FALSE, nlines |-> 0]

\* What the handler awaits: get_end_time awaits rs.get_return_code() too.
KindOf(op) ==
    CASE op = "get_output" -> "output"
      [] op = "get_progress" -> "progress"
      [] op = "get_status" -> "status"
      [] OTHER -> "return_code"

\* The value a waiter of this kind is given when it is let go.
SlotValue(r, kind, witness) ==
    CASE kind = "output" ->
            IF witness < Len(r.output)
            THEN SubSeq(r.output, witness + 1, Len(r.output)) ELSE <<>>
      [] kind = "progress" -> r.progress
      [] kind = "status" -> r.status
      [] OTHER -> r.return_code

\* Whether a waiter of this kind on r need not (or no longer) wait.
SlotReady(r, kind, witness) ==
    \/ r.return_code # None
    \/ kind = "output" /\ witness < Len(r.output)
    \/ kind = "progress" /\ r.progress # witness
    \/ kind = "status" /\ r.status # witness

\* Release that wakes every blocked waiter of the execution at any
\* publication, whether or not what it waits for has come.
ReleaseAll(ws, id, r) ==
    [w \in DOMAIN ws |->
        IF ws[w].rs_id = id /\ ws[w].state = "blocked"
        THEN [ws[w] EXCEPT !.state = "released",
                           !.value = SlotValue(r, KindOf(ws[w].op),
                                               ws[w].witness)]
        ELSE ws[w]]

\* A publication on r (object id): every blocked waiter whose condition now
\* holds is released with the value current at this moment.
Release(ws, id, r) ==
    [w \in DOMAIN ws |->
        IF ws[w].rs_id = id /\ ws[w].state = "blocked"
           /\ SlotReady(r, KindOf(ws[w].op), ws[w].witness)
        THEN [ws[w] EXCEPT !.state = "released",
                           !.value = SlotValue(r, KindOf(ws[w].op),
                                               ws[w].witness)]
        ELSE ws[w]]

\* ExitedRunningScript that drops the bytes of an unterminated last line.
ExitedNoFlush(r, t) ==
    [r EXCEPT !.return_code = Some(IF r.sig THEN -SIGTERM ELSE 0),
              !.end_time = Some(t)]

\* The child exits and its streams are drained: the bytes that never formed
\* a complete line go to the output buffer as they are (spec.md 4.2), then
\* return_code and end_time are published and every waiter is released
\* (spec.md 4.4).
ExitedRunningScript(r, t) ==
    [r EXCEPT !.output = @ \o r.residue,
              !.residue = <<>>,
              !.return_code = Some(IF r.sig THEN -SIGTERM ELSE 0),
              !.end_time = Some(t)]

ChildExit(id) ==
    /\ id \in DOMAIN rs
    /\ ~Exited(id)
    /\ rs' = [rs EXCEPT ![id] = ExitedRunningScript(rs[id], now)]
    /\ waiters' = Release(waiters, id, rs'[id])
    /\ UNCHANGED <<supVars>>

\* KillSignal that records the signal as the return code of a child that had
\* exited already.
KillSignalReap(r) ==
    IF r.return_code # None THEN [r EXCEPT !.return_code = Some(-SIGTERM)]
    ELSE [r EXCEPT !.sig = TRUE]

\* rs.kill() up to its suspension: a no-op after exit, else the signal.
KillSignal(r) == IF r.return_code # None THEN r ELSE [r EXCEPT !.sig = TRUE]

\* A line the child writes: a telemetry line "## key: value" or any other
\* line (key ""), whose text with its terminator goes to the output buffer.
LineKeys == {"", "status", "progress"}
LineValues(key) ==
    CASE key = "status" -> {"", "a"}
      [] key = "progress" -> {<<0, 0>>, <<1, 2>>}
      [] OTHER -> {<<"x", "\n">>}

\* Demux on a buffer that is capped: it keeps the last three bytes.
DemuxCapped(r, line) ==
    CASE line.key = "status" -> [r EXCEPT !.status = line.value]
      [] line.key = "progress" -> [r EXCEPT !.progress = line.value]
      [] OTHER ->
            LET all == r.output \o r.residue \o line.value IN
            [r EXCEPT !.output = IF Len(all) <= 3 THEN all
                                 ELSE SubSeq(all, Len(all) - 2, Len(all)),
                      !.residue = <<>>]

\* The line demultiplexer on one complete line (spec.md 4.2): a telemetry
\* line sets its slot; any other line, with the residue of its stream before
\* it and its terminator after it, is appended to the output buffer.
Demux(r, line) ==
    CASE line.key = "status" -> [r EXCEPT !.status = line.value]
      [] line.key = "progress" -> [r EXCEPT !.progress = line.value]
      [] OTHER -> [r EXCEPT !.output = @ \o r.residue \o line.value,
                            !.residue = <<>>]

\* The child writes bytes that do not end a line: the demultiplexer keeps
\* them as the residue of the stream (spec.md 4.2) and publishes nothing.
ChildWritePartial(id) ==
    /\ id \in DOMAIN rs
    /\ ~Exited(id)
    /\ rs[id].nlines < MaxLines
    /\ rs[id].residue = <<>>
    /\ rs' = [rs EXCEPT ![id] = [@ EXCEPT !.residue = <<"y">>,
                                         !.nlines = @ + 1]]
    /\ UNCHANGED <<supVars, waiters>>

\* The child writes a line and a reader of RunningScript takes it in.
ChildWrite(id) ==
    /\ id \in DOMAIN rs
    /\ ~Exited(id)
    /\ rs[id].nlines < MaxLines
    /\ \E key \in LineKeys : \E value \in LineValues(key) :
        rs' = [rs EXCEPT ![id] =
                [Demux(rs[id], [key |-> key, value |-> value])
                    EXCEPT !.nlines = @ + 1]]
    /\ waiters' = Release(waiters, id, rs'[id])
    /\ UNCHANGED supVars

\* ------------------------------------------ the lines of the two streams
\* A complete line as the child writes it, in pieces: a blank, a "#", a
\* ":", a word, and the terminator at its end.
Whitespace == {" ", "\t"}

RawLines ==
    {<<"x", "\n">>,
     <<" ", "#", "y", "\n">>,
     <<"#", "#", " ", "status", " ", ":", " ", "a", "\n">>,
     <<"\t", "#", "#", "progress", ":", "1/2", "\n">>,
     <<"#", "#", "other", ":", "z", "\n">>}

RECURSIVE StripLeading(_)
StripLeading(s) ==
    IF s # <<>> /\ Head(s) \in Whitespace THEN StripLeading(Tail(s)) ELSE s

RECURSIVE StripTrailing(_)
StripTrailing(s) ==
    IF s # <<>> /\ s[Len(s)] \in Whitespace
    THEN StripTrailing(SubSeq(s, 1, Len(s) - 1)) ELSE s

Trim(s) == StripTrailing(StripLeading(s))

\* spec.md 4.2: the line without its terminator and its leading whitespace
\* begins with ##; what follows is split at the first ":" and both sides
\* are trimmed.  None for a line that is not telemetry.
Telemetry(raw) ==
    LET s == StripLeading(SubSeq(raw, 1, Len(raw) - 1)) IN
    IF Len(s) >= 2 /\ s[1] = "#" /\ s[2] = "#"
    THEN LET rest == SubSeq(s, 3, Len(s))
             C == {i \in 1..Len(rest) : rest[i] = ":"} IN
         IF C = {} THEN Some([key |-> Trim(rest), value |-> <<>>])
         ELSE LET c == CHOOSE i \in C : \A j \in C : i <= j IN
              Some([key |-> Trim(SubSeq(rest, 1, c - 1)),
                    value |-> Trim(SubSeq(rest, c + 1, Len(rest)))])
    ELSE None

\* numerator/denominator; None when the value does not parse
ParseProgress(v) ==
    IF v = <<"1/2">> THEN Some(<<1, 2>>)
    ELSE IF v = <<"0/0">> THEN Some(<<0, 0>>)
    ELSE None

\* The text of a value, which in the lines above is one word at most.
StatusText(v) == IF v = <<>> THEN "" ELSE v[1]

\* FeedLine that takes a telemetry line into its slot and lets it through
\* to the output buffer as well.
FeedLineKeeps(r, raw) ==
    LET t == Telemetry(raw)
        o == Demux(r, [key |-> "", value |-> raw]) IN
    IF t = None THEN o
    ELSE IF t[1].key = <<"status">>
    THEN Demux(o, [key |-> "status", value |-> StatusText(t[1].value)])
    ELSE IF t[1].key = <<"progress">> /\ ParseProgress(t[1].value) # None
    THEN Demux(o, [key |-> "progress",
                   value |-> ParseProgress(t[1].value)[1]])
    ELSE o

\* One complete line taken in by the demultiplexer (spec.md 4.2): a
\* telemetry line goes to its slot, or nowhere when its key is not known or
\* its value does not parse; any other line goes to the output buffer with
\* its terminator.
FeedLine(r, raw) ==
    LET t == Telemetry(raw) IN
    IF t = None THEN Demux(r, [key |-> "", value |-> raw])
    ELSE IF t[1].key = <<"status">>
    THEN Demux(r, [key |-> "status", value |-> StatusText(t[1].value)])
    ELSE IF t[1].key = <<"progress">> /\ ParseProgress(t[1].value) # None
    THEN Demux(r, [key |-> "progress",
                   value |-> ParseProgress(t[1].value)[1]])
    ELSE r

\* What a step of a stream leaves alone.
pipeRest == <<running_scripts, temporary_dirs, cleanup_tasks, disk, garbage,
              age, now, posted, wsconn, deleting, killing, sd, deleted>>

\* The lines of stream s that a reader has taken
Taken(s) ==
    Cardinality({i \in 1..Len(pipes.arrived) : pipes.arrived[i][1] = s})

\* The child of the first execution writes a complete line to one of its
\* streams, where it waits to be read.
PipeWrite(s) ==
    /\ 1 \in DOMAIN rs
    /\ ~Exited(1)
    /\ Len(pipes.written[s]) < MaxStreamLines
    /\ \E raw \in RawLines :
        pipes' = [pipes EXCEPT !.written[s] = Append(@, raw)]
    /\ UNCHANGED <<pipeRest, rs, waiters>>

\* The reader of stream s takes the next line of its stream and the
\* demultiplexer publishes what the line brings.
ReaderTakes(s) ==
    /\ 1 \in DOMAIN rs
    /\ Taken(s) < Len(pipes.written[s])
    /\ rs' = [rs EXCEPT ![1] = FeedLine(@, pipes.written[s][Taken(s) + 1])]
    /\ waiters' = Release(waiters, 1, rs'[1])
    /\ pipes' = [pipes EXCEPT !.arrived = Append(@, <<s, Taken(s) + 1>>)]
    /\ UNCHANGED pipeRest

\* The child exits; its return code is published when both readers have
\* come to the end of their streams (spec.md 4.4).
PipeExit ==
    /\ \A s \in Streams : Taken(s) = Len(pipes.written[s])
    /\ ChildExit(1)


\* the call returns at once when there is nothing to wait for, and else
\* joins the waiters of the slot (spec.md 4.3).
Subscribe(op, id, witness) ==
    IF SlotReady(rs[id], KindOf(op), witness)
    THEN [op |-> op, rs_id |-> id, witness |-> witness, state |-> "returned",
          value |-> SlotValue(rs[id], KindOf(op), witness)]
    ELSE [op |-> op, rs_id |-> id, witness |-> witness, state |-> "blocked",
          value |-> None]

\* ------------------------------------------------------------ POST /scripts/
\* Every task created has taken its first step.  A created task takes it in
\* the event-loop iteration after its creation; a new request, or the
\* shutdown of the server, needs at least one iteration to reach a handler.
AllStarted == \A i \in 1..Len(cleanup_tasks) : cleanup_tasks[i].pc # "new"

Serving == sd.pc = "idle" /\ AllStarted

\* server.py:175-177
RunScriptNotFound ==
    /\ Serving
    /\ UNCHANGED vars

\* server.py:179-218, a request answered 400: the directories of the file
\* parts read before the error were made and nothing deletes them; the
\* TemporaryDirectory objects are garbage when the handler's frame goes.
RunScriptReject(req, maxGarbage) ==
    LET c == CollectArgs(req, 0) IN
    /\ BadRequest(req, 0)
    /\ garbage + Len(c.dirs) <= maxGarbage
    /\ garbage' = garbage + Len(c.dirs)
    /\ UNCHANGED <<running_scripts, temporary_dirs, cleanup_tasks, rs, disk,
                   age, now, wsconn, pipes, deleting, killing, sd, waiters,
                   deleted>>

RunScriptBad(maxParts) ==
    /\ Serving
    /\ \E req \in Requests(maxParts) : RunScriptReject(req, MaxGarbage)
    /\ UNCHANGED posted

\* server.py:179-237, a request accepted
\* RunScriptAccept of a handler that enters an execution in temporary_dirs
\* only when it has directories.
RunScriptAcceptNoEmptyDirs(req) ==
    LET rs_id == Len(cleanup_tasks) + 1
        c == CollectArgs(req, rs_id) IN
    /\ ~BadRequest(req, rs_id)
    /\ disk' = disk \cup Range(c.dirs)
    /\ rs' = Put(rs, rs_id, NewRunningScript(OrderArgs(c.byname, 0), now))
    /\ running_scripts' = Append(running_scripts, rs_id)
    /\ temporary_dirs' = IF c.dirs = <<>> THEN temporary_dirs
                         ELSE Put(temporary_dirs, rs_id, c.dirs)
    /\ cleanup_tasks' = Append(cleanup_tasks,
            [rs_id |-> rs_id, pc |-> "new", remaining |-> 0])
    /\ age' = Put(age, rs_id, 0)
    /\ deleting' = Put(deleting, rs_id, 0)
    /\ killing' = Put(killing, rs_id, 0)
    /\ UNCHANGED <<garbage, now, wsconn, pipes, sd, waiters, deleted>>

RunScriptAccept(req) ==
    LET rs_id == Len(cleanup_tasks) + 1
        c == CollectArgs(req, rs_id) IN
    /\ ~BadRequest(req, rs_id)
    /\ disk' = disk \cup Range(c.dirs)
    /\ rs' = Put(rs, rs_id, NewRunningScript(OrderArgs(c.byname, 0), now))
    /\ running_scripts' = Append(running_scripts, rs_id)
    /\ temporary_dirs' = Put(temporary_dirs, rs_id, c.dirs)
    /\ cleanup_tasks' = Append(cleanup_tasks,
            [rs_id |-> rs_id, pc |-> "new", remaining |-> 0])
    /\ age' = Put(age, rs_id, 0)
    /\ deleting' = Put(deleting, rs_id, 0)
    /\ killing' = Put(killing, rs_id, 0)
    /\ UNCHANGED <<garbage, now, wsconn, pipes, sd, waiters, deleted>>

RunScriptOK(limit, maxParts) ==
    /\ Serving
    /\ Len(cleanup_tasks) < limit
    /\ \E req \in Requests(maxParts) : RunScriptAccept(req)
    /\ UNCHANGED posted

\* run_script as its client sees it: the request sent and the response that
\* came back, the status and, with a 200, the id in the body
\* (server.py:237).
PostAccepted(limit, maxParts) ==
    /\ Serving
    /\ Len(cleanup_tasks) < limit
    /\ \E req \in Requests(maxParts) :
        /\ RunScriptAccept(req)
        /\ posted' = Some([req |-> req, status |-> 200,
                           text |-> Len(cleanup_tasks) + 1])

PostRejected(maxParts, maxGarbage) ==
    /\ Serving
    /\ \E req \in Requests(maxParts) :
        /\ RunScriptReject(req, maxGarbage)
        /\ posted' = Some([req |-> req, status |-> 400, text |-> 0])

\* The interpreter finalizes an unreferenced TemporaryDirectory, which
\* removes its directory, at a time of its own choosing.
Finalize ==
    /\ garbage > 0
    /\ garbage' = garbage - 1
    /\ UNCHANGED <<running_scripts, temporary_dirs, cleanup_tasks, rs, disk,
                   age, now, posted, wsconn, pipes, deleting, killing, sd,
                   waiters, deleted>>

\* --------------------------------------------- the deferred cleanup task
SetTask(i, pc, remaining) ==
    [cleanup_tasks EXCEPT ![i] = [@ EXCEPT !.pc = pc, !.remaining = remaining]]

\* server.py:230-233, the finally clause: the directories popped are cleaned
FinallyDisk(id) == disk \ Range(DirsOf(temporary_dirs, id))

\* The first step of the task: up to await rs.get_return_code() (server.py:227)
CleanupStart(i) ==
    /\ i \in 1..Len(cleanup_tasks)
    /\ cleanup_tasks[i].pc = "new"
    /\ cleanup_tasks' = SetTask(i, "await_rc", 0)
    /\ UNCHANGED <<running_scripts, temporary_dirs, rs, disk, garbage, age,
                   now, posted, wsconn, pipes, deleting, killing, sd, waiters,
                   deleted>>

\* CleanupSleep without the delay: the task goes on as soon as the return
\* code is there.
CleanupSleepNoDelay(i) ==
    /\ i \in 1..Len(cleanup_tasks)
    /\ cleanup_tasks[i].pc = "await_rc"
    /\ Exited(cleanup_tasks[i].rs_id)
    /\ cleanup_tasks' = SetTask(i, "sleep", 0)
    /\ UNCHANGED <<running_scripts, temporary_dirs, rs, disk, garbage, age,
                   now, posted, wsconn, pipes, deleting, killing, sd, waiters,
                   deleted>>

\* CleanupSleep of a cleanup() whose sleep raises: the finally clause runs,
\* the pop of the record does not, and the task has ended.
CleanupSleepRaises(i) ==
    /\ i \in 1..Len(cleanup_tasks)
    /\ cleanup_tasks[i].pc = "await_rc"
    /\ Exited(cleanup_tasks[i].rs_id)
    /\ LET id == cleanup_tasks[i].rs_id IN
        /\ disk' = FinallyDisk(id)
        /\ temporary_dirs' = DirsPop(temporary_dirs, id)
    /\ cleanup_tasks' = SetTask(i, "done", 0)
    /\ UNCHANGED <<running_scripts, rs, garbage, age, now, posted, wsconn,
                   pipes, deleting, killing, sd, waiters, deleted>>

\* The return code is there: on to asyncio.sleep(CLEANUP_DELAY) (server.py:228)
CleanupSleep(i) ==
    /\ i \in 1..Len(cleanup_tasks)
    /\ cleanup_tasks[i].pc = "await_rc"
    /\ Exited(cleanup_tasks[i].rs_id)
    /\ cleanup_tasks' = SetTask(i, "sleep", CLEANUP_DELAY)
    /\ UNCHANGED <<running_scripts, temporary_dirs, rs, disk, garbage, age,
                   now, posted, wsconn, pipes, deleting, killing, sd, waiters,
                   deleted>>

\* CleanupExpire without running_scripts.pop(rs_id, None).
CleanupExpireNoPop(i) ==
    /\ i \in 1..Len(cleanup_tasks)
    /\ cleanup_tasks[i].pc = "sleep"
    /\ cleanup_tasks[i].remaining = 0
    /\ LET id == cleanup_tasks[i].rs_id IN
        /\ disk' = FinallyDisk(id)
        /\ temporary_dirs' = DirsPop(temporary_dirs, id)
    /\ cleanup_tasks' = SetTask(i, "done", 0)
    /\ UNCHANGED <<running_scripts, rs, garbage, age, now, posted, wsconn,
                   pipes, deleting, killing, sd, waiters, deleted>>

\* CleanupExpire of a cleanup() that takes the newest execution out of the
\* two mappings, not the one it was made for.
CleanupExpireNewest(i) ==
    /\ i \in 1..Len(cleanup_tasks)
    /\ cleanup_tasks[i].pc = "sleep"
    /\ cleanup_tasks[i].remaining = 0
    /\ LET id == Len(rs) IN
        /\ running_scripts' = DictPop(running_scripts, id)
        /\ disk' = FinallyDisk(id)
        /\ temporary_dirs' = DirsPop(temporary_dirs, id)
    /\ cleanup_tasks' = SetTask(i, "done", 0)
    /\ UNCHANGED <<rs, garbage, age, now, posted, wsconn, pipes, deleting,
                   killing, sd, waiters, deleted>>

\* The sleep is over: server.py:229-233
CleanupExpire(i) ==
    /\ i \in 1..Len(cleanup_tasks)
    /\ cleanup_tasks[i].pc = "sleep"
    /\ cleanup_tasks[i].remaining = 0
    /\ LET id == cleanup_tasks[i].rs_id IN
        /\ running_scripts' = DictPop(running_scripts, id)
        /\ disk' = FinallyDisk(id)
        /\ temporary_dirs' = DirsPop(temporary_dirs, id)
    /\ cleanup_tasks' = SetTask(i, "done", 0)
    /\ UNCHANGED <<rs, garbage, age, now, posted, wsconn, pipes, deleting,
                   killing, sd, waiters, deleted>>

\* A task is ready to run: its await has been satisfied (or it is new).
Ready ==
    \/ \E i \in 1..Len(cleanup_tasks) :
        \/ cleanup_tasks[i].pc = "new"
        \/ cleanup_tasks[i].pc = "await_rc" /\ Exited(cleanup_tasks[i].rs_id)
        \/ cleanup_tasks[i].pc = "sleep" /\ cleanup_tasks[i].remaining = 0
    \/ \E id \in DOMAIN rs :
        Exited(id) /\ (deleting[id] > 0 \/ killing[id] > 0)
    \/ sd.pc = "kill_wait" /\ Exited(sd.wait)
    \/ sd.pc = "cancel_wait"
    \/ \E w \in 1..Len(waiters) : waiters[w].state = "released"

\* Time passes, by one CLEANUP_DELAY: the event loop runs every task that
\* is ready before it waits for its timers, so time passes only when none is.
Tick ==
    /\ ~Ready
    /\ \/ \E i \in 1..Len(cleanup_tasks) :
            cleanup_tasks[i].pc = "sleep" /\ cleanup_tasks[i].remaining > 0
       \/ \E id \in DOMAIN rs : Exited(id) /\ age[id] < CLEANUP_DELAY
    /\ cleanup_tasks' =
        [i \in DOMAIN cleanup_tasks |->
            IF cleanup_tasks[i].pc = "sleep"
            THEN [cleanup_tasks[i] EXCEPT !.remaining = Max(@ - 1, 0)]
            ELSE cleanup_tasks[i]]
    /\ age' = [id \in DOMAIN age |->
                IF Exited(id) THEN Min(age[id] + 1, CLEANUP_DELAY) ELSE age[id]]
    /\ UNCHANGED <<running_scripts, temporary_dirs, rs, disk, garbage, now,
                   posted, wsconn, pipes, deleting, killing, sd, waiters,
                   deleted>>

\* -------------------------------------------------------- GET /running/{id}
\* server.py:263-282
GetRunningScript(id) ==
    /\ Serving
    /\ UNCHANGED vars

\* datetime.isoformat() of a time, None staying None (server.py:250-253)
Iso(t) == IF t = None THEN None ELSE <<"iso", t[1]>>

\* The JSON object the two handlers build for an execution
\* (server.py:246-257, 272-281).
Snapshot(id) ==
    [id |-> id,
     script |-> "script",
     args |-> rs[id].args,
     start_time |-> Iso(Some(rs[id].start_time)),
     end_time |-> Iso(rs[id].end_time),
     progress |-> rs[id].progress,
     status |-> rs[id].status,
     return_code |-> rs[id].return_code]

\* The body of GET /running/: one object for each item of running_scripts,
\* in the order of the dict (server.py:244-260).
GetRunningBody ==
    [i \in 1..Len(running_scripts) |-> Snapshot(running_scripts[i])]

\* The body of GET /running/{id} (server.py:271-282)
GetRunningScriptBody(id) == Snapshot(id)

\* server.py:240-260
GetRunning ==
    /\ Serving
    /\ UNCHANGED vars

\* The wall clock moves on.
WallClock ==
    /\ now < MaxTime
    /\ now' = now + 1
    /\ UNCHANGED <<running_scripts, temporary_dirs, cleanup_tasks, rs, disk,
                   garbage, age, posted, wsconn, pipes, deleting, killing, sd,
                   waiters, deleted>>

\* ----------------------------------------------------- DELETE /running/{id}
\* DeleteFinish that forgets the directories without cleaning them up.
DeleteFinishNoDirs(id) ==
    /\ running_scripts' = DictPop(running_scripts, id)
    /\ disk' = disk
    /\ temporary_dirs' = DirsPop(temporary_dirs, id)
    /\ deleted' = deleted \cup {id}

\* DeleteFinish that leaves the execution in the mapping.
DeleteFinishNoPop(id) ==
    /\ running_scripts' = running_scripts
    /\ disk' = disk \ Range(DirsOf(temporary_dirs, id))
    /\ temporary_dirs' = DirsPop(temporary_dirs, id)
    /\ deleted' = deleted \cup {id}

\* DeleteFinish that reads the list of directories and leaves it in
\* temporary_dirs, for the cleanup task to clean once more.
DeleteFinishKeepsEntry(id) ==
    /\ running_scripts' = DictPop(running_scripts, id)
    /\ disk' = disk \ Range(DirsOf(temporary_dirs, id))
    /\ temporary_dirs' = temporary_dirs
    /\ deleted' = deleted \cup {id}

\* server.py:296-301: after rs.kill() has returned
DeleteFinish(id) ==
    /\ running_scripts' = DictPop(running_scripts, id)
    /\ disk' = disk \ Range(DirsOf(temporary_dirs, id))
    /\ temporary_dirs' = DirsPop(temporary_dirs, id)
    /\ deleted' = deleted \cup {id}

\* server.py:290-292
DeleteNotFound(id) ==
    /\ Serving
    /\ ~Lookup(id)
    /\ UNCHANGED vars

\* server.py:290-301 on an execution that has exited: kill() does not suspend
DeleteExited(id) ==
    /\ Serving
    /\ Lookup(id)
    /\ Exited(id)
    /\ rs' = [rs EXCEPT ![id] = KillSignal(@)]
    /\ DeleteFinish(id)
    /\ UNCHANGED <<cleanup_tasks, garbage, age, now, posted, wsconn, pipes,
                   deleting, killing, sd, waiters>>

\* DeleteKill of a handler that takes the execution out of the mapping
\* before it waits for rs.kill().
DeleteKillPopsFirst(id) ==
    /\ Serving
    /\ Lookup(id)
    /\ ~Exited(id)
    /\ deleting[id] < MaxConc
    /\ rs' = [rs EXCEPT ![id] = KillSignal(rs[id])]
    /\ deleting' = [deleting EXCEPT ![id] = @ + 1]
    /\ running_scripts' = DictPop(running_scripts, id)
    /\ UNCHANGED <<temporary_dirs, cleanup_tasks, disk, garbage, age, now,
                   posted, wsconn, pipes, killing, sd, waiters, deleted>>

\* server.py:290-294 on a running execution: the signal, then the handler
\* is suspended until the return code is set
DeleteKillAmong(id, conc) ==
    /\ Serving
    /\ Lookup(id)
    /\ ~Exited(id)
    /\ deleting[id] < conc
    /\ rs' = [rs EXCEPT ![id] = KillSignal(rs[id])]
    /\ deleting' = [deleting EXCEPT ![id] = @ + 1]
    /\ UNCHANGED <<running_scripts, temporary_dirs, cleanup_tasks,
                   disk, garbage, age, now, posted, wsconn, pipes, killing, sd,
                   waiters, deleted>>

DeleteKill(id) == DeleteKillAmong(id, MaxConc)

\* DeleteResume of a handler that also cancels the cleanup task of the
\* execution, which runs its finally clause on directories already gone.
DeleteResumeCancels(id) ==
    /\ id \in DOMAIN rs
    /\ deleting[id] > 0
    /\ Exited(id)
    /\ deleting' = [deleting EXCEPT ![id] = @ - 1]
    /\ DeleteFinish(id)
    /\ cleanup_tasks' =
        [i \in DOMAIN cleanup_tasks |->
            IF cleanup_tasks[i].rs_id = id
            THEN [cleanup_tasks[i] EXCEPT !.pc = "cancelled",
                                          !.remaining = 0]
            ELSE cleanup_tasks[i]]
    /\ UNCHANGED <<rs, garbage, age, now, posted, wsconn, pipes, killing, sd,
                   waiters>>

\* server.py:294-301: kill() returns, the handler goes on
DeleteResume(id) ==
    /\ id \in DOMAIN rs
    /\ deleting[id] > 0
    /\ Exited(id)
    /\ deleting' = [deleting EXCEPT ![id] = @ - 1]
    /\ DeleteFinish(id)
    /\ UNCHANGED <<cleanup_tasks, rs, garbage, age, now, posted, wsconn, pipes,
                   killing, sd, waiters>>

\* server.py:294: the client goes away while the handler is suspended in
\* rs.kill() and the handler is cancelled there; nothing after the await
\* runs.
DeleteCancelled(id) ==
    /\ id \in DOMAIN rs
    /\ sd.pc = "idle"
    /\ deleting[id] > 0
    /\ ~Exited(id)
    /\ deleting' = [deleting EXCEPT ![id] = @ - 1]
    /\ UNCHANGED <<running_scripts, temporary_dirs, cleanup_tasks, rs, disk,
                   garbage, age, now, posted, wsconn, pipes, killing, sd,
                   waiters, deleted>>

\* -------------------------------------------------- POST /running/{id}/kill
\* server.py:386-388
PostKillNotFound(id) ==
    /\ Serving
    /\ ~Lookup(id)
    /\ UNCHANGED vars

\* server.py:386-392 on an execution that has exited
PostKillExited(id) ==
    /\ Serving
    /\ Lookup(id)
    /\ Exited(id)
    /\ rs' = [rs EXCEPT ![id] = KillSignal(@)]
    /\ UNCHANGED <<supVars, waiters>>

\* server.py:386-390 on a running execution
PostKillSignal(id) ==
    /\ Serving
    /\ Lookup(id)
    /\ ~Exited(id)
    /\ killing[id] < MaxConc
    /\ rs' = [rs EXCEPT ![id] = KillSignal(rs[id])]
    /\ killing' = [killing EXCEPT ![id] = @ + 1]
    /\ UNCHANGED <<running_scripts, temporary_dirs, cleanup_tasks, disk,
                   garbage, age, now, posted, wsconn, pipes, deleting, sd,
                   waiters, deleted>>

\* PostKillResume of a handler that, as DELETE does, removes the execution
\* once it is killed.
PostKillResumeRemoves(id) ==
    /\ id \in DOMAIN rs
    /\ killing[id] > 0
    /\ Exited(id)
    /\ killing' = [killing EXCEPT ![id] = @ - 1]
    /\ running_scripts' = DictPop(running_scripts, id)
    /\ disk' = disk \ Range(DirsOf(temporary_dirs, id))
    /\ temporary_dirs' = DirsPop(temporary_dirs, id)
    /\ UNCHANGED <<cleanup_tasks, rs, garbage, age, now, posted, wsconn, pipes,
                   deleting, sd, waiters, deleted>>

\* PostKillResume of a handler that answers without waiting for rs.kill().
PostKillResumeNoWait(id) ==
    /\ id \in DOMAIN rs
    /\ killing[id] > 0
    /\ killing' = [killing EXCEPT ![id] = @ - 1]
    /\ UNCHANGED <<running_scripts, temporary_dirs, cleanup_tasks, rs, disk,
                   garbage, age, now, posted, wsconn, pipes, deleting, sd,
                   waiters, deleted>>

\* server.py:390-392
PostKillResume(id) ==
    /\ id \in DOMAIN rs
    /\ killing[id] > 0
    /\ Exited(id)
    /\ killing' = [killing EXCEPT ![id] = @ - 1]
    /\ UNCHANGED <<running_scripts, temporary_dirs, cleanup_tasks, rs, disk,
                   garbage, age, now, posted, wsconn, pipes, deleting, sd,
                   waiters, deleted>>

\* HandlerResponse that sends what the slot holds when the handler resumes
\* in place of what its await returned.
HandlerResponseCurrent(op, id, v) ==
    IF op = "get_end_time"
    THEN IF rs[id].end_time # None
         THEN [status |-> 200, body |-> rs[id].end_time]
         ELSE [status |-> 500, body |-> None]
    ELSE [status |-> 200,
          body |-> CASE op = "get_progress" -> rs[id].progress
                     [] op = "get_status" -> rs[id].status
                     [] OTHER -> v]

\* HandlerResponse of a get_output that sends the whole buffer, whatever the
\* offset asked for.
HandlerResponseWhole(op, id, v) ==
    IF op = "get_end_time"
    THEN IF rs[id].end_time # None
         THEN [status |-> 200, body |-> rs[id].end_time]
         ELSE [status |-> 500, body |-> None]
    ELSE [status |-> 200,
          body |-> IF op = "get_output" THEN rs[id].output ELSE v]

\* ------------------------------------------------ the long-poll handlers
\* What the handler sends once its await has returned v: get_end_time
\* asserts that rs.end_time is set and sends it (server.py:377-380), the
\* others send v (server.py:319, 344, 357, 367).
HandlerResponse(op, id, v) ==
    IF op = "get_end_time"
    THEN IF rs[id].end_time # None
         THEN [status |-> 200, body |-> rs[id].end_time]
         ELSE [status |-> 500, body |-> None]
    ELSE [status |-> 200, body |-> v]

\* The witnesses a client sends: ?from=, ?since=
Witnesses(op) ==
    CASE op = "get_output" -> 0..MaxLines
      [] op = "get_progress" -> {<<0, 0>>, <<1, 2>>}
      [] op = "get_status" -> {"", "a"}
      [] OTHER -> {0}

\* The handler up to its first suspension: the lookup, then the await, which
\* may return at once.
LongPoll(op, id) ==
    /\ Serving
    /\ Lookup(id)
    /\ Len(waiters) < MaxWaiters
    /\ \E witness \in Witnesses(op) :
        LET w == Subscribe(op, id, witness) IN
        waiters' = Append(waiters,
            IF w.state = "blocked" THEN w @@ [resp |-> None]
            ELSE [w EXCEPT !.state = "done", !.value = None]
                 @@ [resp |-> HandlerResponse(op, id, w.value)])
    /\ UNCHANGED <<supVars, rs>>

\* server.py:304-319
GetOutput(id) == LongPoll("get_output", id)
\* server.py:322-344
GetProgress(id) == LongPoll("get_progress", id)
\* server.py:347-357
GetStatus(id) == LongPoll("get_status", id)
\* server.py:360-367
GetReturnCode(id) == LongPoll("get_return_code", id)
\* GetEndTime without its await of the return code.
GetEndTimeNoAwait(id) ==
    /\ Serving
    /\ Lookup(id)
    /\ Len(waiters) < MaxWaiters
    /\ waiters' = Append(waiters,
            [op |-> "get_end_time", rs_id |-> id, witness |-> 0,
             state |-> "done", value |-> None,
             resp |-> HandlerResponse("get_end_time", id, None)])
    /\ UNCHANGED <<supVars, rs>>

\* server.py:370-380
GetEndTime(id) == LongPoll("get_end_time", id)

\* server.py:311-312, 329-330, 354-355: without ?from= or ?since= the
\* handler sends what the slot holds and does not wait.
GetSlotNow(id) ==
    /\ Serving
    /\ Lookup(id)
    /\ UNCHANGED vars

\* server.py:314-317, 332-342: a ?from= or ?since= that does not parse is
\* answered 400.
LongPollBadQuery(id) ==
    /\ Serving
    /\ Lookup(id)
    /\ UNCHANGED vars

\* server.py:308-309, 326-327, 351-352, 364-365, 374-375
LongPollNotFound(id) ==
    /\ Serving
    /\ ~Lookup(id)
    /\ UNCHANGED vars

\* LongPollResume of a handler that looks the id up again before it answers.
LongPollResumeLookup(w) ==
    /\ w \in 1..Len(waiters)
    /\ waiters[w].state = "released"
    /\ Lookup(waiters[w].rs_id)
    /\ LET h == waiters[w] IN
        waiters' = [waiters EXCEPT ![w] =
            [h EXCEPT !.state = "done", !.value = None,
                      !.resp = HandlerResponse(h.op, h.rs_id, h.value)]]
    /\ UNCHANGED <<supVars, rs>>

\* The await has returned: the handler, which holds the RunningScript
\* object itself, sends its response.
LongPollResume(w) ==
    /\ w \in 1..Len(waiters)
    /\ waiters[w].state = "released"
    /\ LET h == waiters[w] IN
        waiters' = [waiters EXCEPT ![w] =
            [h EXCEPT !.state = "done", !.value = None,
                      !.resp = HandlerResponse(h.op, h.rs_id, h.value)]]
    /\ UNCHANGED <<supVars, rs>>

\* ---------------------------------------------- the channel at /running/ws
\* spec.md 6, WebSocket: one connection, on which each command the client
\* sends runs as a task of its own that makes the call of the same name on
\* the execution and sends one reply carrying the command's id.
WsIds == 1..MaxWsCommands

WsTypes == {"get_output", "get_progress", "get_status", "get_return_code",
            "get_end_time"}

\* What a step of the channel leaves alone.
wsRest == <<running_scripts, temporary_dirs, cleanup_tasks, rs, disk, garbage,
            age, now, posted, pipes, deleting, killing, sd, deleted>>

\* The ids the client has used on this connection; it makes a new one for
\* every command.
WsUsed == DOMAIN wsconn.cmd \cup {m.id : m \in wsconn.sent}

\* The command is in flight: its task has neither replied nor been
\* cancelled.
WsInFlight(cid) ==
    /\ cid \in DOMAIN wsconn.cmd
    /\ waiters[wsconn.cmd[cid]].state \in {"blocked", "released"}

\* {id, type, rs_id, after | since}: the task of the command starts and
\* makes its call, which returns at once or joins the waiters of the slot.
WsCommand(cid, type, id) ==
    /\ Serving
    /\ cid \notin WsUsed
    /\ Lookup(id)
    /\ Len(waiters) < MaxWaiters
    /\ \E witness \in Witnesses(type) :
        LET w == Subscribe(type, id, witness) IN
        waiters' = Append(waiters,
            [w EXCEPT !.state = IF w.state = "blocked" THEN "blocked"
                                ELSE "released"] @@ [resp |-> None])
    /\ wsconn' = [wsconn EXCEPT !.cmd = Put(@, cid, Len(waiters) + 1)]
    /\ UNCHANGED wsRest

\* A command of an unknown type, for an unknown rs_id or with a malformed
\* argument: {id, error}.
WsError(cid) ==
    /\ Serving
    /\ cid \notin WsUsed
    /\ wsconn' = [wsconn EXCEPT !.sent =
            @ \cup {[id |-> cid, kind |-> "error", value |-> None]}]
    /\ UNCHANGED <<wsRest, waiters>>

\* The call of a command has returned and its task sends the reply:
\* {id, value}, or {id, error} when making the value failed.
WsReply(cid) ==
    /\ cid \in DOMAIN wsconn.cmd
    /\ waiters[wsconn.cmd[cid]].state = "released"
    /\ LET h == waiters[wsconn.cmd[cid]]
           r == HandlerResponse(h.op, h.rs_id, h.value) IN
        /\ waiters' = [waiters EXCEPT ![wsconn.cmd[cid]] =
                [h EXCEPT !.state = "done", !.value = None, !.resp = r]]
        /\ wsconn' = [wsconn EXCEPT !.sent = @ \cup
                {[id |-> cid,
                  kind |-> IF r.status = 200 THEN "value" ELSE "error",
                  value |-> r.body]}]
    /\ UNCHANGED wsRest

\* WsCancel that notes the cancellation and leaves the task of the command
\* among the waiters of its slot.
WsCancelKeepsWaiter(cid) ==
    /\ WsInFlight(cid)
    /\ wsconn' = [wsconn EXCEPT !.cancelled = @ \cup {cid}]
    /\ UNCHANGED <<wsRest, waiters>>

\* {id} for a command in flight: its task is cancelled, which takes it out
\* of the wake set of its slot (spec.md 5, Cancellation), and it sends
\* nothing.
WsCancel(cid) ==
    /\ WsInFlight(cid)
    /\ waiters' = [waiters EXCEPT ![wsconn.cmd[cid]].state = "cancelled"]
    /\ wsconn' = [wsconn EXCEPT !.cancelled = @ \cup {cid}]
    /\ UNCHANGED wsRest

\* {id} for a command that is not in flight: nothing to cancel.
WsCancelStale(cid) ==
    /\ ~WsInFlight(cid)
    /\ UNCHANGED vars

\* ------------------------------------------- make_app: the on_cleanup handler
SetMin(S) == CHOOSE x \in S : \A y \in S : x <= y

Pending(i) == cleanup_tasks[i].pc \notin {"done", "cancelled"}

\* CancelLoop on a cleanup() whose removal of the directories is not in a
\* finally clause: a cancellation skips it.
CancelLoopNoFinally(tpos) ==
    LET P == {i \in (tpos + 1)..Len(cleanup_tasks) : Pending(i)} IN
    IF P = {}
    THEN /\ sd' = [sd EXCEPT !.pc = "done"]
         /\ UNCHANGED <<cleanup_tasks, temporary_dirs, disk>>
    ELSE LET i == SetMin(P) IN
         /\ sd' = [sd EXCEPT !.pc = "cancel_wait", !.tpos = i]
         /\ cleanup_tasks' = SetTask(i, "cancelled", 0)
         /\ UNCHANGED <<temporary_dirs, disk>>

\* server.py:410-415 from the task after index tpos on: a task that is done
\* is passed without suspending; the first pending one is cancelled and
\* awaited.  A cancelled task that has started raises CancelledError at its
\* await and runs its finally clause (server.py:230-233); one that has not
\* started never enters its try statement.
CancelLoop(tpos) ==
    LET P == {i \in (tpos + 1)..Len(cleanup_tasks) : Pending(i)} IN
    IF P = {}
    THEN /\ sd' = [sd EXCEPT !.pc = "done"]
         /\ UNCHANGED <<cleanup_tasks, temporary_dirs, disk>>
    ELSE LET i == SetMin(P)
             id == cleanup_tasks[i].rs_id IN
         /\ sd' = [sd EXCEPT !.pc = "cancel_wait", !.tpos = i]
         /\ cleanup_tasks' = SetTask(i, "cancelled", 0)
         /\ IF cleanup_tasks[i].pc = "new"
            THEN UNCHANGED <<temporary_dirs, disk>>
            ELSE /\ disk' = FinallyDisk(id)
                 /\ temporary_dirs' = DirsPop(temporary_dirs, id)

\* server.py:407-408 from the entry after index pos on: the dict iterator
\* raises RuntimeError when the size of the dict is not the one it was
\* made with; kill() of an exited script does not suspend; the first running
\* one is signalled and awaited.  After the loop, server.py:410.
KillLoop(used, pos) ==
    IF Len(running_scripts) # used
    THEN /\ sd' = [sd EXCEPT !.pc = "failed"]
         /\ UNCHANGED <<rs, cleanup_tasks, temporary_dirs, disk>>
    ELSE LET J == {j \in (pos + 1)..Len(running_scripts) :
                        ~Exited(running_scripts[j])} IN
         IF J # {}
         THEN LET j == SetMin(J) IN
              /\ rs' = [i \in DOMAIN rs |->
                            IF \E k \in (pos + 1)..j : running_scripts[k] = i
                            THEN KillSignal(rs[i]) ELSE rs[i]]
              /\ sd' = [sd EXCEPT !.pc = "kill_wait", !.used = used,
                                  !.pos = j, !.wait = running_scripts[j]]
              /\ UNCHANGED <<cleanup_tasks, temporary_dirs, disk>>
         ELSE /\ CancelLoop(0)
              /\ rs' = [i \in DOMAIN rs |->
                            IF \E k \in (pos + 1)..Len(running_scripts) :
                                    running_scripts[k] = i
                            THEN KillSignal(rs[i]) ELSE rs[i]]

\* The server stops: the handlers still suspended are cancelled, then
\* on_cleanup runs (server.py:404-408).
AppCleanupStart ==
    /\ Serving
    /\ deleting' = [id \in DOMAIN deleting |-> 0]
    /\ killing' = [id \in DOMAIN killing |-> 0]
    /\ waiters' = [w \in DOMAIN waiters |->
                    IF waiters[w].state \in {"blocked", "released"}
                    THEN [waiters[w] EXCEPT !.state = "cancelled"]
                    ELSE waiters[w]]
    /\ KillLoop(Len(running_scripts), 0)
    /\ UNCHANGED <<running_scripts, garbage, age, now, posted, wsconn, pipes,
                   deleted>>

\* server.py:408: rs.kill() returns, the loop goes on
AppCleanupKilled ==
    /\ sd.pc = "kill_wait"
    /\ Exited(sd.wait)
    /\ KillLoop(sd.used, sd.pos)
    /\ UNCHANGED <<running_scripts, garbage, age, now, posted, wsconn, pipes,
                   deleting, killing, waiters, deleted>>

\* AppCleanupCancelled after a cleanup() that takes its execution out of the
\* mapping in its finally clause too.
AppCleanupCancelledPops ==
    /\ sd.pc = "cancel_wait"
    /\ CancelLoop(sd.tpos)
    /\ running_scripts' =
            DictPop(running_scripts, cleanup_tasks[sd.tpos].rs_id)
    /\ UNCHANGED <<rs, garbage, age, now, posted, wsconn, pipes, deleting,
                   killing, waiters, deleted>>

\* server.py:413-415: the cancelled task has ended, the loop goes on
AppCleanupCancelled ==
    /\ sd.pc = "cancel_wait"
    /\ CancelLoop(sd.tpos)
    /\ UNCHANGED <<running_scripts, rs, garbage, age, now, posted, wsconn,
                   pipes, deleting, killing, waiters, deleted>>

\* ------------------------------------------------------------ specification
\* make_app (server.py:395-402)
Init ==
    /\ running_scripts = <<>>
    /\ temporary_dirs = <<>>
    /\ cleanup_tasks = <<>>
    /\ rs = <<>>
    /\ disk = {}
    /\ garbage = 0
    /\ age = <<>>
    /\ now = 0
    /\ deleting = <<>>
    /\ killing = <<>>
    /\ sd = [pc |-> "idle", used |-> 0, pos |-> 0, wait |-> 0, tpos |-> 0]
    /\ waiters = <<>>
    /\ deleted = {}
    /\ posted = None
    /\ wsconn = [cmd |-> <<>>, cancelled |-> {}, sent |-> {}]
    /\ pipes = [written |-> [s \in Streams |-> <<>>], arrived |-> <<>>]

\* The server and its children.
Next ==
    \/ RunScriptNotFound
    \/ RunScriptBad(MaxParts)
    \/ RunScriptOK(MaxScripts, MaxParts)
    \/ Finalize
    \/ \E id \in Ids : ChildExit(id)
    \/ \E i \in Ids : CleanupStart(i)
    \/ \E i \in Ids : CleanupSleep(i)
    \/ \E i \in Ids : CleanupExpire(i)
    \/ Tick
    \/ GetRunning
    \/ \E id \in Ids : GetRunningScript(id)
    \/ \E id \in Ids : DeleteNotFound(id)
    \/ \E id \in Ids : DeleteExited(id)
    \/ \E id \in Ids : DeleteKill(id)
    \/ \E id \in Ids : DeleteResume(id)
    \/ \E id \in Ids : PostKillNotFound(id)
    \/ \E id \in Ids : PostKillExited(id)
    \/ \E id \in Ids : PostKillSignal(id)
    \/ \E id \in Ids : PostKillResume(id)
    \/ AppCleanupStart
    \/ AppCleanupKilled
    \/ AppCleanupCancelled

Spec == Init /\ [][Next]_vars

\* The server, its children and clients that go away while their DELETE
\* waits for the kill.
DelNext ==
    \/ Next
    \/ \E id \in Ids : DeleteCancelled(id)

DelSpec == Init /\ [][DelNext]_vars

\* One execution with its uploads and all that may take its scratch
\* directories away: DELETE requests, several at a time, the cleanup task
\* and the shutdown.
RaceNext ==
    \/ RunScriptOK(MaxSlotScripts, MaxParts)
    \/ \E id \in Ids : ChildExit(id)
    \/ \E i \in Ids : CleanupStart(i)
    \/ \E i \in Ids : CleanupSleep(i)
    \/ \E i \in Ids : CleanupExpire(i)
    \/ Tick
    \/ \E id \in Ids : DeleteNotFound(id)
    \/ \E id \in Ids : DeleteExited(id)
    \/ \E id \in Ids : DeleteKillAmong(id, MaxRaceConc)
    \/ \E id \in Ids : DeleteResume(id)
    \/ AppCleanupStart
    \/ AppCleanupKilled
    \/ AppCleanupCancelled

RaceSpec == Init /\ [][RaceNext]_vars

\* One execution, the lines of its child and the long-polls on it; no
\* request has a body and the server is not shut down.
SlotNext ==
    \/ RunScriptOK(MaxSlotScripts, 0)
    \/ \E id \in Ids : ChildWrite(id)
    \/ \E id \in Ids : ChildWritePartial(id)
    \/ \E id \in Ids : ChildExit(id)
    \/ \E i \in Ids : CleanupStart(i)
    \/ \E i \in Ids : CleanupSleep(i)
    \/ \E i \in Ids : CleanupExpire(i)
    \/ Tick
    \/ \E id \in Ids : DeleteExited(id)
    \/ \E id \in Ids : DeleteKill(id)
    \/ \E id \in Ids : DeleteResume(id)
    \/ \E id \in Ids : PostKillExited(id)
    \/ \E id \in Ids : PostKillSignal(id)
    \/ \E id \in Ids : PostKillResume(id)
    \/ \E id \in Ids : GetOutput(id)
    \/ \E id \in Ids : GetProgress(id)
    \/ \E id \in Ids : GetStatus(id)
    \/ \E id \in Ids : GetReturnCode(id)
    \/ \E id \in Ids : GetEndTime(id)
    \/ \E id \in Ids : GetSlotNow(id)
    \/ \E id \in Ids : LongPollBadQuery(id)
    \/ \E id \in Ids : LongPollNotFound(id)
    \/ \E w \in 1..MaxWaiters : LongPollResume(w)

SlotSpec == Init /\ [][SlotNext]_vars

\* The server without its shutdown, on the scheduling asyncio gives: a task
\* whose await is satisfied is run, and a timer that is due fires.
LiveNext ==
    \/ RunScriptNotFound
    \/ RunScriptBad(MaxParts)
    \/ RunScriptOK(MaxScripts, MaxParts)
    \/ Finalize
    \/ \E id \in Ids : ChildExit(id)
    \/ \E i \in Ids : CleanupStart(i)
    \/ \E i \in Ids : CleanupSleep(i)
    \/ \E i \in Ids : CleanupExpire(i)
    \/ Tick
    \/ \E id \in Ids : GetRunningScript(id)
    \/ \E id \in Ids : DeleteNotFound(id)
    \/ \E id \in Ids : DeleteExited(id)
    \/ \E id \in Ids : DeleteKill(id)
    \/ \E id \in Ids : DeleteResume(id)
    \/ \E id \in Ids : PostKillNotFound(id)
    \/ \E id \in Ids : PostKillExited(id)
    \/ \E id \in Ids : PostKillSignal(id)
    \/ \E id \in Ids : PostKillResume(id)

Fairness ==
    /\ WF_vars(Tick)
    /\ \A i \in Ids : WF_vars(CleanupStart(i))
    /\ \A i \in Ids : WF_vars(CleanupSleep(i))
    /\ \A i \in Ids : WF_vars(CleanupExpire(i))
    /\ \A id \in Ids : WF_vars(DeleteResume(id))
    /\ \A id \in Ids : WF_vars(PostKillResume(id))
    /\ \A w \in 1..MaxWaiters : WF_vars(LongPollResume(w))

LiveSpec == Init /\ [][LiveNext]_vars /\ Fairness

SlotLiveSpec == Init /\ [][SlotNext]_vars /\ Fairness

\* The running list under creations, exits, expiries and deletions, with
\* the wall clock that start_time and end_time are read from.
ListIds == 1..MaxListScripts

ListNext ==
    \/ RunScriptOK(MaxListScripts, 0)
    \/ WallClock
    \/ \E id \in ListIds : ChildExit(id)
    \/ \E i \in ListIds : CleanupStart(i)
    \/ \E i \in ListIds : CleanupSleep(i)
    \/ \E i \in ListIds : CleanupExpire(i)
    \/ Tick
    \/ GetRunning
    \/ \E id \in ListIds : GetRunningScript(id)
    \/ \E id \in ListIds : DeleteExited(id)

ListSpec == Init /\ [][ListNext]_vars

\* POST /scripts/{script} with bodies of up to MaxArgParts parts, each
\* followed to its response.
ArgNext ==
    \/ PostAccepted(MaxArgScripts, MaxArgParts)
    \/ PostRejected(MaxArgParts, MaxArgGarbage)
    \/ Finalize
    \/ \E i \in 1..MaxArgScripts : CleanupStart(i)

ArgSpec == Init /\ [][ArgNext]_vars

\* One execution, the lines of its child and the commands of one client on
\* the channel at /running/ws.
WsNext ==
    \/ RunScriptOK(MaxSlotScripts, 0)
    \/ \E i \in Ids : CleanupStart(i)
    \/ \E id \in Ids : ChildWrite(id)
    \/ \E id \in Ids : ChildExit(id)
    \/ \E cid \in WsIds : \E type \in WsTypes : \E id \in Ids :
           WsCommand(cid, type, id)
    \/ \E cid \in WsIds : WsError(cid)
    \/ \E cid \in WsIds : WsReply(cid)
    \/ \E cid \in WsIds : WsCancel(cid)
    \/ \E cid \in WsIds : WsCancelStale(cid)

WsSpec == Init /\ [][WsNext]_vars

\* One execution, the lines its child writes to its two streams and the
\* two readers that take them.
DemuxNext ==
    \/ RunScriptOK(MaxSlotScripts, 0)
    \/ \E i \in Ids : CleanupStart(i)
    \/ \E s \in Streams : PipeWrite(s)
    \/ \E s \in Streams : ReaderTakes(s)
    \/ PipeExit

DemuxSpec == Init /\ [][DemuxNext]_vars

\* ------------------------------------------------------------------ claims
\* The directories of execution id that are on disk.
ExecDirs(id) == {d \in disk : d[1] = id}

\* The execution was given an uploaded file.
HasUpload(id) == \E k \in 1..Len(rs[id].args) : rs[id].args[k][1] = "path"

\* The files among the arguments of the execution are on disk.
UploadsOnDisk(id) ==
    \A k \in 1..Len(rs[id].args) :
        rs[id].args[k][1] = "path"
            => <<rs[id].args[k][2], rs[id].args[k][3]>> \in disk

\* The state of the deferred cleanup task made for execution id.
TaskPc(id) == cleanup_tasks[CHOOSE i \in 1..Len(cleanup_tasks) :
                                cleanup_tasks[i].rs_id = id].pc

\* Nothing of execution id is left: no record, no directory.
Gone(id) ==
    /\ ~Lookup(id)
    /\ id \notin DOMAIN temporary_dirs
    /\ ExecDirs(id) = {}

\* C1: once the child of an execution has exited, and the server is not
\* shut down, its cleanup task ends and the execution is out of the mapping
\* and of the listing, with its scratch directories deleted.
C1_ExitedIsCleanedUp ==
    \A id \in Ids :
        (id \in DOMAIN rs /\ Exited(id))
            ~> [](/\ id \in DOMAIN rs
                  /\ TaskPc(id) = "done"
                  /\ age[id] = CLEANUP_DELAY
                  /\ Gone(id))

\* An execution with an upload that no DELETE touched has been removed by
\* its cleanup task.
C1_Witness ==
    \E id \in DOMAIN rs :
        /\ HasUpload(id)
        /\ id \notin deleted
        /\ TaskPc(id) = "done"
        /\ Gone(id)

\* C2: when DELETE /running/{id} has answered 200, the child has exited, the
\* id is in neither mapping and every scratch directory of the execution is
\* deleted.
C2_DeleteRemovesEverything ==
    \A id \in deleted : Exited(id) /\ Gone(id)

\* A DELETE answered for an execution with an upload whose child it killed,
\* and one for an execution whose child had exited by itself.
C2_Witness ==
    /\ \E id \in deleted :
        HasUpload(id) /\ rs[id].return_code = Some(-SIGTERM)
    /\ \E id \in deleted :
        HasUpload(id) /\ rs[id].return_code = Some(0)

ShutdownOver == sd.pc \in {"done", "failed"}

\* C3: when the shutdown of the service is over, every child has exited,
\* no cleanup task is pending and no scratch directory of an execution is
\* on disk.
C3_ShutdownReleasesEverything ==
    ShutdownOver =>
        \A id \in DOMAIN rs :
            /\ Exited(id)
            /\ TaskPc(id) \in {"done", "cancelled"}
            /\ ExecDirs(id) = {}

C5_LingersUntilDelay ==
    \A id \in DOMAIN rs :
        /\ (sd.pc = "idle" /\ id \notin deleted
                /\ (~Exited(id) \/ age[id] < CLEANUP_DELAY))
            => /\ Lookup(id)
               /\ id \in DOMAIN temporary_dirs
               /\ UploadsOnDisk(id)
        /\ TaskPc(id) = "done" => Exited(id) /\ age[id] = CLEANUP_DELAY

\* An execution that has exited and lingers, with its uploaded file.
C5_Witness ==
    \E id \in DOMAIN rs :
        /\ Exited(id)
        /\ age[id] < CLEANUP_DELAY
        /\ TaskPc(id) = "sleep"
        /\ HasUpload(id)
        /\ Lookup(id)

\* The id was created and has been neither deleted nor expired.
Live(id) ==
    /\ id \in DOMAIN rs
    /\ id \notin deleted
    /\ TaskPc(id) # "done"

\* C6: a request finds a record for an id iff the id was created and has
\* been neither deleted nor expired; an id that is missing stays missing,
\* and the object behind an id is never replaced.
C6_FoundIffLive ==
    /\ [](\A id \in Ids : Lookup(id) <=> Live(id))
    /\ [][\A id \in DOMAIN rs :
            /\ ~Lookup(id) => ~Lookup(id)'
            /\ id \in DOMAIN rs'
            /\ rs'[id].start_time = rs[id].start_time
            /\ rs'[id].args = rs[id].args]_vars

\* One id deleted and missing, another expired and missing.
C6_Witness ==
    \E id1, id2 \in DOMAIN rs :
        /\ id1 \in deleted /\ TaskPc(id1) # "done" /\ ~Lookup(id1)
        /\ id2 \notin deleted /\ TaskPc(id2) = "done" /\ ~Lookup(id2)

\* C7: a POST answered 400 leaves no scratch directory on disk.
C7_RejectedLeavesNothing == garbage = 0

\* The subscriptions that wait for a change from a witness.
ChangeOps == {"get_output", "get_progress", "get_status"}

\* The value sent differs from the witness of the request (for the output,
\* there is text past the offset asked for).
Changed(h) ==
    IF h.op = "get_output" THEN h.resp.body # <<>>
    ELSE h.resp.body # h.witness

\* Request w gets its response in this step.
Returns(w) ==
    /\ w \in 1..Len(waiters')
    /\ waiters'[w].state = "done"
    /\ w \in 1..Len(waiters) => waiters[w].state # "done"

\* C8: a change-subscription called with witness w that returns v has
\* v # w, or the child has exited when it returns; also when the slot was
\* published again, back to w, between the wake-up and the return.
C8_ReturnsChangeOrExit ==
    [][\A w \in 1..MaxWaiters :
        (Returns(w) /\ waiters'[w].op \in ChangeOps)
            => \/ Changed(waiters'[w])
               \/ rs'[waiters'[w].rs_id].return_code # None]_vars

\* A get_status woken with a value other than its witness and not yet
\* resumed, while the child runs and the status is the witness once more.
C8_Witness ==
    \E w \in 1..Len(waiters) :
        /\ waiters[w].state = "released"
        /\ waiters[w].op = "get_status"
        /\ ~Exited(waiters[w].rs_id)
        /\ rs[waiters[w].rs_id].status = waiters[w].witness
        /\ waiters[w].value # waiters[w].witness

\* Request w is suspended, and what it waits for has happened.
Due(w) ==
    /\ w \in 1..Len(waiters)
    /\ \/ waiters[w].state = "released"
       \/ /\ waiters[w].state = "blocked"
          /\ SlotReady(rs[waiters[w].rs_id], KindOf(waiters[w].op),
                       waiters[w].witness)

\* C9: every blocked call returns once what it waits for has changed or the
\* child has exited, whatever the number of waiters, and also when the
\* execution is killed, deleted or expired meanwhile.
C9_NoWaiterDangles ==
    \A w \in 1..MaxWaiters :
        Due(w) ~> (w \in 1..Len(waiters) /\ waiters[w].state = "done")

\* Two calls on one execution let go by the exit of its child, the
\* execution having left the mapping before either has returned.
C9_Witness ==
    /\ Len(waiters) = 2
    /\ waiters[1].rs_id = waiters[2].rs_id
    /\ waiters[1].state = "released"
    /\ waiters[2].state = "released"
    /\ Exited(waiters[1].rs_id)
    /\ ~Lookup(waiters[1].rs_id)

\* What get_return_code and get_end_time have sent is what the object holds.
SentWhatIsHeld ==
    \A w \in 1..Len(waiters) :
        LET h == waiters[w] IN
        /\ (h.state = "done" /\ h.op = "get_end_time")
            => /\ h.resp.status = 200
               /\ h.resp.body # None
               /\ h.resp.body = rs[h.rs_id].end_time
        /\ (h.state = "done" /\ h.op = "get_return_code")
            => /\ h.resp.body # None
               /\ h.resp.body = rs[h.rs_id].return_code

\* C10: return_code is unset iff end_time is unset; once set neither
\* changes; get_end_time always finds end_time set, and every
\* get_return_code on an execution sends the same value.
C10_SetTogetherOnce ==
    /\ [](\A id \in DOMAIN rs :
            rs[id].return_code = None <=> rs[id].end_time = None)
    /\ [][\A id \in DOMAIN rs :
            rs[id].return_code # None
                => /\ rs'[id].return_code = rs[id].return_code
                   /\ rs'[id].end_time = rs[id].end_time]_vars
    /\ []SentWhatIsHeld

\* A get_return_code and a get_end_time that have been answered, the
\* execution having been killed.
C10_Witness ==
    \E w1, w2 \in 1..Len(waiters) :
        /\ waiters[w1].state = "done" /\ waiters[w1].op = "get_return_code"
        /\ waiters[w2].state = "done" /\ waiters[w2].op = "get_end_time"
        /\ waiters[w1].rs_id = waiters[w2].rs_id
        /\ rs[waiters[w1].rs_id].return_code = Some(-SIGTERM)

\* output[n:] of an execution
OutputFrom(r, n) ==
    IF n < Len(r.output) THEN SubSeq(r.output, n + 1, Len(r.output))
    ELSE <<>>

\* The waiting call w is let go in this step.
Wakes(w) ==
    /\ w \in 1..Len(waiters)
    /\ waiters[w].state = "blocked"
    /\ waiters'[w].state = "released"

\* C11: get_output(N) returns output[N:] as it is when the call is let go;
\* it does not wait when N is below the length, it waits while N is at or
\* past the length and the child runs, and it returns the empty string only
\* when the child has exited.
C11_OutputFromOffset ==
    /\ [](\A w \in 1..Len(waiters) :
            (waiters[w].op = "get_output" /\ waiters[w].state = "blocked")
                => /\ waiters[w].witness >= Len(rs[waiters[w].rs_id].output)
                   /\ ~Exited(waiters[w].rs_id))
    /\ [][\A w \in 1..MaxWaiters :
            /\ (Wakes(w) /\ waiters[w].op = "get_output")
                => waiters'[w].value
                     = OutputFrom(rs'[waiters[w].rs_id], waiters[w].witness)
            /\ (Returns(w) /\ waiters'[w].op = "get_output")
                => /\ waiters'[w].resp.body
                        = (IF w \in 1..Len(waiters)
                           THEN waiters[w].value
                           ELSE OutputFrom(rs[waiters'[w].rs_id],
                                           waiters'[w].witness))
                   /\ waiters'[w].resp.body = <<>>
                        => rs[waiters'[w].rs_id].return_code # None]_vars

\* A get_output from an offset past the start that waited and is let go,
\* while the child runs, with the text written past its offset.
C11_Witness ==
    \E w \in 1..Len(waiters) :
        /\ waiters[w].state = "released"
        /\ waiters[w].op = "get_output"
        /\ waiters[w].witness > 0
        /\ waiters[w].value # <<>>
        /\ ~Exited(waiters[w].rs_id)

\* old is a prefix of new
IsPrefix(old, new) ==
    /\ Len(old) <= Len(new)
    /\ SubSeq(new, 1, Len(old)) = old

\* C12: the output buffer of an execution is append-only: in every step its
\* length does not decrease and what was written stays as it was.
C12_OutputAppendOnly ==
    [][\A id \in DOMAIN rs : IsPrefix(rs[id].output, rs'[id].output)]_vars

\* An execution whose buffer holds two lines, that was killed and whose
\* output a long-poll has read.
C12_Witness ==
    \E w \in 1..Len(waiters) :
        /\ waiters[w].op = "get_output"
        /\ waiters[w].state = "done"
        /\ Len(rs[waiters[w].rs_id].output) >= 4
        /\ rs[waiters[w].rs_id].sig
        /\ Exited(waiters[w].rs_id)

\* C13: once the return code of an execution is set its output buffer does
\* not change any more, and no byte the child wrote is held back outside the
\* buffer: an unterminated last line is in it when the return code is
\* published.
C13_NoOutputAfterExit ==
    /\ [](\A id \in DOMAIN rs : Exited(id) => rs[id].residue = <<>>)
    /\ [][\A id \in DOMAIN rs :
            Exited(id) => rs'[id].output = rs[id].output]_vars

\* A get_return_code has returned for an execution whose child wrote a
\* line and then bytes without a line end.
C13_Witness ==
    \E w \in 1..Len(waiters) :
        /\ waiters[w].op = "get_return_code"
        /\ waiters[w].state = "done"
        /\ rs[waiters[w].rs_id].output = <<"x", "\n", "y">>

\* A handler suspended in rs.kill() of execution id goes on in this step
\* (and is not cancelled by the shutdown).
KillReturns(id) ==
    /\ sd'.pc = "idle"
    /\ \/ killing'[id] < killing[id]
       \/ deleting'[id] < deleting[id]

\* C14: rs.kill() returns, and POST /running/{id}/kill answers, only when
\* the return code is set; the return code of a child that was running when
\* it was killed is negative.
C14_KillReturnsAfterExit ==
    /\ [][\A id \in DOMAIN rs : KillReturns(id) => Exited(id)]_vars
    /\ [](\A id \in DOMAIN rs :
            (rs[id].sig /\ Exited(id)) => rs[id].return_code[1] < 0)

\* A POST kill on a running child has been answered: the execution was
\* signalled, no handler waits on it and no DELETE has touched it.
C14_Witness ==
    \E id \in DOMAIN rs :
        /\ rs[id].sig
        /\ Exited(id)
        /\ killing[id] = 0
        /\ deleting[id] = 0
        /\ id \notin deleted
        /\ sd.pc = "idle"

\* What a client can read of an execution.
Observable(r) ==
    <<r.return_code, r.end_time, r.output, r.progress, r.status>>

\* C15: a kill of an execution whose child has exited changes none of
\* return_code, end_time, output, progress and status, and suspends no
\* handler: whatever runs after the exit, kills included, the same return
\* code is read.
C15_KillIdempotent ==
    [][\A id \in DOMAIN rs :
        Exited(id)
            => /\ Observable(rs'[id]) = Observable(rs[id])
               /\ killing'[id] <= killing[id]
               /\ deleting'[id] <= deleting[id]
               /\ (sd'.pc = "kill_wait" /\ sd'.wait = id)
                    => (sd.pc = "kill_wait" /\ sd.wait = id)]_vars

\* A DELETE, which calls rs.kill(), has been answered for an execution
\* whose child had exited by itself: its return code is still the child's.
C15_Witness ==
    \E id \in deleted :
        /\ ~rs[id].sig
        /\ rs[id].return_code = Some(0)

\* A step of a POST /running/{id}/kill handler that suspends in rs.kill()
\* or goes on after it.
PostKillStep(id) ==
    /\ sd'.pc = "idle"
    /\ killing'[id] # killing[id]

\* C16: POST /running/{id}/kill removes nothing: its steps leave the
\* mappings, the directories on disk and what can be read of the execution
\* as they are, and an execution that was killed stays in the mapping with
\* its scratch files until its cleanup task expires, a DELETE is answered or
\* the server shuts down.
C16_KillKeepsRecord ==
    /\ [][\A id \in DOMAIN rs :
            PostKillStep(id)
                => /\ running_scripts' = running_scripts
                   /\ temporary_dirs' = temporary_dirs
                   /\ disk' = disk
                   /\ Observable(rs'[id]) = Observable(rs[id])]_vars
    /\ [](\A id \in DOMAIN rs :
            (rs[id].sig /\ id \notin deleted /\ sd.pc = "idle"
                /\ TaskPc(id) # "done")
                => /\ Lookup(id)
                   /\ id \in DOMAIN temporary_dirs
                   /\ Range(temporary_dirs[id]) \subseteq disk
                   /\ UploadsOnDisk(id))

\* A POST kill answered for an execution with an upload: the child has been
\* killed and the execution is in the mapping with its file on disk.
C16_Witness ==
    \E id \in DOMAIN rs :
        /\ rs[id].return_code = Some(-SIGTERM)
        /\ killing[id] = 0
        /\ deleting[id] = 0
        /\ id \notin deleted
        /\ sd.pc = "idle"
        /\ HasUpload(id)
        /\ Lookup(id)
        /\ UploadsOnDisk(id)

\* C17: the running list holds the executions that remain in the order of
\* their creation, in which their start times do not decrease; taking an
\* execution out leaves the others in their order.
C17_ListInCreationOrder ==
    \A i, j \in 1..Len(GetRunningBody) :
        i < j => /\ GetRunningBody[i].id < GetRunningBody[j].id
                 /\ GetRunningBody[i].start_time[2]
                        <= GetRunningBody[j].start_time[2]

\* The list after the second of three executions was taken out, the first
\* having started before the third.
C17_Witness ==
    /\ Len(GetRunningBody) = 2
    /\ GetRunningBody[1].id = 1
    /\ GetRunningBody[2].id = 3
    /\ GetRunningBody[1].start_time # GetRunningBody[2].start_time


\* The names of the fields a request submits: those of the parts of a form
\* body, an unnamed part counting as a field whose name is no arg<n>; a
\* body of another content type submits no fields.
Submitted(req) ==
    IF req.ctype \in {"form", "multipart"}
    THEN {req.parts[i].name : i \in 1..Len(req.parts)}
    ELSE {}

\* The value the request gives for arg<n> in an execution id: the text of
\* the part of that name, or the path of the file that was made from it, in
\* the directory made for the k-th uploaded file of the request.  Of parts of
\* one name an urlencoded body gives the first and a multipart body the last.
Sent(req, n, id) ==
    LET I == {i \in 1..Len(req.parts) : req.parts[i].name = ArgName(n)}
        i == IF req.ctype = "form"
             THEN CHOOSE x \in I : \A y \in I : x <= y
             ELSE CHOOSE x \in I : \A y \in I : x >= y
        k == Cardinality({j \in 1..i : req.parts[j].file})
    IN  IF req.parts[i].file THEN <<"path", id, k>>
        ELSE <<"text", 0, req.parts[i].text>>

\* C18: a POST for a known script is answered 200 exactly when the names of
\* the fields it submits are arg0 .. arg(N-1) for some N >= 0, and 400
\* otherwise; the execution a 200 names has as its arguments the N values
\* in the order of their indices, whatever the order of the parts.
C18_ArgsByIndex ==
    posted # None =>
        LET p == posted[1]
            names == Submitted(p.req) IN
        /\ p.status \in {200, 400}
        /\ p.status = 200 <=>
               \E N \in 0..Len(p.req.parts) :
                   names = {ArgName(n) : n \in 0..(N - 1)}
        /\ p.status = 200 =>
               /\ p.text \in DOMAIN rs
               /\ rs[p.text].args =
                      [n \in 1..Cardinality(names) |->
                          Sent(p.req, n - 1, p.text)]

\* A multipart body that gives arg1, an uploaded file, before arg0, a text,
\* was accepted: the execution has the text first and the path second.
C18_Witness ==
    /\ posted # None
    /\ posted[1].status = 200
    /\ posted[1].req.ctype = "multipart"
    /\ Len(posted[1].req.parts) = 2
    /\ posted[1].req.parts[1].name = ArgName(1)
    /\ posted[1].req.parts[1].file
    /\ posted[1].req.parts[2].name = ArgName(0)
    /\ ~posted[1].req.parts[2].file
    /\ Len(rs[posted[1].text].args) = 2
    /\ rs[posted[1].text].args[1][1] = "text"
    /\ rs[posted[1].text].args[2][1] = "path"

\* C19: no reply carries the id of a command that was cancelled while in
\* flight, whatever the slot it waited on publishes afterwards, and the
\* cancellation leaves every other command of the connection as it was.
C19_CancelSuppressesReply ==
    [][/\ \A cid \in wsconn'.cancelled :
            \A m \in wsconn'.sent : m.id # cid
       /\ \A cid \in wsconn'.cancelled \ wsconn.cancelled :
            \A d \in DOMAIN wsconn.cmd \ {cid} :
                /\ d \in DOMAIN wsconn'.cmd
                /\ wsconn'.cmd[d] = wsconn.cmd[d]
                /\ waiters'[wsconn.cmd[d]] = waiters[wsconn.cmd[d]]]_vars

\* Two get_output commands waited on one execution from one offset; one was
\* cancelled before any output came to wake it, output has come since while
\* the child runs, and the other has had its reply.
C19_Witness ==
    \E c \in wsconn.cancelled : \E d \in DOMAIN wsconn.cmd \ {c} :
        LET hc == waiters[wsconn.cmd[c]]
            hd == waiters[wsconn.cmd[d]] IN
        /\ hc.state = "cancelled"
        /\ hc.op = "get_output"
        /\ hc.value = None
        /\ hc.op = hd.op /\ hc.rs_id = hd.rs_id /\ hc.witness = hd.witness
        /\ ~Exited(hc.rs_id)
        /\ SlotReady(rs[hc.rs_id], KindOf(hc.op), hc.witness)
        /\ \E m \in wsconn.sent : m.id = d /\ m.kind = "value"
        /\ \A m \in wsconn.sent : m.id # c

\* The fields of an execution snapshot (spec.md 6).
SnapshotFields ==
    {"id", "script", "name", "args", "start_time", "end_time", "progress",
     "status", "return_code"}

\* C20: every snapshot of GET /running/ has exactly the fields id, script,
\* name, args, start_time, end_time, progress, status and return_code, with
\* progress [0, 0], an empty status and no end_time or return_code while the
\* child has neither published nor exited, and GET /running/{id} gives the
\* same snapshot for the same id.
C20_SnapshotHasNineFields ==
    \A i \in 1..Len(GetRunningBody) :
        LET s == GetRunningBody[i] IN
        /\ DOMAIN s = SnapshotFields
        /\ (rs[s.id].nlines = 0 /\ ~Exited(s.id)) =>
               /\ s.progress = <<0, 0>>
               /\ s.status = ""
               /\ s.end_time = None
               /\ s.return_code = None
        /\ GetRunningScriptBody(s.id) = s

C22_EndedTaskRemovedRecord ==
    \A id \in DOMAIN rs :
        TaskPc(id) \in {"done", "cancelled"} => ~Lookup(id)

\* C22, amended: the execution of a cleanup task that has run to its end is
\* not in the mapping; the cancellation of a task leaves the mapping as it
\* is, so that the execution of a cancelled task is in the mapping unless a
\* DELETE took it out.
C22_OnlyCompletionRemovesRecord ==
    /\ [](\A id \in DOMAIN rs :
            /\ TaskPc(id) = "done" => ~Lookup(id)
            /\ TaskPc(id) = "cancelled" => (Lookup(id) <=> id \notin deleted))
    /\ [][\A i \in DOMAIN cleanup_tasks :
            (cleanup_tasks'[i].pc = "cancelled"
                /\ cleanup_tasks[i].pc # "cancelled")
                => running_scripts' = running_scripts]_vars

\* The shutdown is over: it cancelled the task of one execution, which is in
\* the mapping, and the task of another had run to its end and taken its
\* execution out.
C22_Witness ==
    /\ sd.pc = "done"
    /\ \E id1, id2 \in DOMAIN rs :
        /\ TaskPc(id1) = "cancelled" /\ Lookup(id1)
        /\ TaskPc(id2) = "done" /\ ~Lookup(id2) /\ id2 \notin deleted

\* The wait of h was ended with nothing new in its slot: no text past the
\* offset, or the value it gave as its witness.
WokenUnchanged(h) ==
    /\ h.state = "released"
    /\ h.op \in ChangeOps
    /\ IF h.op = "get_output" THEN h.value = <<>> ELSE h.value = h.witness

\* C23: a waiter on output, progress or status whose wait the exit of the
\* child has ended, with nothing new in its slot, finds return_code set (and
\* end_time with it) from the moment it is woken to the moment it resumes.
C23_ExitWakeSeesReturnCode ==
    \A w \in 1..Len(waiters) :
        WokenUnchanged(waiters[w])
            => /\ rs[waiters[w].rs_id].return_code # None
               /\ rs[waiters[w].rs_id].end_time # None

\* A get_status and a get_output woken by the exit of the child and not yet
\* resumed, the status being the witness still and the output no longer
\* than the offset.
C23_Witness ==
    /\ Len(waiters) = 2
    /\ waiters[1].op = "get_status" /\ WokenUnchanged(waiters[1])
    /\ waiters[2].op = "get_output" /\ WokenUnchanged(waiters[2])
    /\ Exited(waiters[1].rs_id)
    /\ Lookup(waiters[1].rs_id)

\* The line is telemetry as the specification words it: its first
\* characters that are not whitespace are ##.
StartsWithHashes(raw) ==
    \E k \in 1..(Len(raw) - 1) :
        /\ \A j \in 1..(k - 1) : raw[j] \in Whitespace
        /\ raw[k] = "#"
        /\ raw[k + 1] = "#"

\* The lines that have arrived, in the order of their arrival, without
\* those that are telemetry, one after the other.
RECURSIVE PassedThrough(_)
PassedThrough(arrived) ==
    IF arrived = <<>> THEN <<>>
    ELSE LET a == arrived[Len(arrived)]
             raw == pipes.written[a[1]][a[2]] IN
         PassedThrough(SubSeq(arrived, 1, Len(arrived) - 1))
            \o (IF StartsWithHashes(raw) THEN <<>> ELSE raw)

\* C24: the output buffer is the lines that are not telemetry, each with
\* its terminator, in the order in which the readers took them; nothing of
\* a telemetry line is in it; and the lines of each stream are taken in the
\* order in which the child wrote them.
C24_OutputIsPassthroughLines ==
    1 \in DOMAIN rs =>
        /\ rs[1].output = PassedThrough(pipes.arrived)
        /\ \A i \in 1..(Len(rs[1].output) - 1) :
                ~(rs[1].output[i] = "#" /\ rs[1].output[i + 1] = "#")
        /\ \A i, j \in 1..Len(pipes.arrived) :
                (i < j /\ pipes.arrived[i][1] = pipes.arrived[j][1])
                    => pipes.arrived[i][2] < pipes.arrived[j][2]

\* A line of stderr was taken between two lines of stdout, a telemetry line
\* has set the status, and the output holds the three other lines.
C24_Witness ==
    /\ 1 \in DOMAIN rs
    /\ Len(pipes.arrived) = 4
    /\ pipes.arrived[1] = <<"stdout", 1>>
    /\ pipes.arrived[2] = <<"stderr", 1>>
    /\ pipes.arrived[3] = <<"stderr", 2>>
    /\ pipes.arrived[4] = <<"stdout", 2>>
    /\ rs[1].status = "a"
    /\ Len(rs[1].output) = 2 + 4 + 2

\* C25: an id leaves the mapping, by a DELETE or by its cleanup task, only
\* when the return code of its child is set; a DELETE cancelled while it
\* waits for the kill takes nothing out.
C25_RemovedOnlyAfterExit ==
    [][\A id \in DOMAIN rs :
        (Lookup(id) /\ ~Lookup(id)') => (Exited(id) /\ Exited(id)')]_vars

\* A DELETE was cancelled while it waited for the kill: the child has the
\* signal and has not exited yet, no handler waits for it, and the
\* execution is in the mapping.
C25_Witness ==
    \E id \in DOMAIN rs :
        /\ sd.pc = "idle"
        /\ rs[id].sig
        /\ ~Exited(id)
        /\ deleting[id] = 0
        /\ killing[id] = 0
        /\ Lookup(id)

\* C26: whatever the order of the DELETE requests, the expiry of the
\* cleanup task and the shutdown, the scratch directories of an execution
\* are taken out of temporary_dirs once, by a step that cleans each of them,
\* all on disk until then; a path that comes after changes neither the
\* mapping nor the disk and ends as it would have: the DELETE is answered
\* 200.
C26_ScratchTakenOnce ==
    [][\A id \in DOMAIN rs :
        /\ id \notin DOMAIN temporary_dirs
            => /\ id \notin DOMAIN temporary_dirs'
               /\ ExecDirs(id) = {}
               /\ ExecDirs(id)' = {}
        /\ (id \in DOMAIN temporary_dirs /\ id \notin DOMAIN temporary_dirs')
            => /\ Range(temporary_dirs[id]) \subseteq disk
               /\ disk \ disk' = Range(temporary_dirs[id])
        /\ (id \in DOMAIN temporary_dirs /\ id \in DOMAIN temporary_dirs')
            => /\ temporary_dirs'[id] = temporary_dirs[id]
               /\ ExecDirs(id)' = ExecDirs(id)
        /\ (deleting'[id] < deleting[id] /\ sd'.pc = "idle")
            => id \in deleted']_vars

\* Two DELETE requests found the execution, with its upload, while its
\* child ran; the kill is over, one has taken the directories and answered,
\* the other has yet to go on, and the cleanup task sleeps its delay.
C26_Witness ==
    \E id \in deleted :
        /\ deleting[id] = 1
        /\ HasUpload(id)
        /\ id \notin DOMAIN temporary_dirs
        /\ TaskPc(id) = "sleep"
        /\ sd.pc = "idle"

\* C27: when the shutdown has ended, also after an execution left the
\* mapping while the shutdown waited for a kill, every child that is in the
\* mapping has exited and no cleanup task is pending.
C27_ShutdownSurvivesRemoval ==
    sd.pc \in {"done", "failed"} =>
        /\ \A id \in DOMAIN rs : Lookup(id) => Exited(id)
        /\ \A i \in DOMAIN cleanup_tasks : ~Pending(i)

\* Task i ends in this step: its cleanup() runs to its end or is cancelled.
TaskEnds(i) ==
    /\ Pending(i)
    /\ cleanup_tasks'[i].pc \in {"done", "cancelled"}

\* Nothing of execution id changes in this step: its place in the mapping,
\* its entry of temporary_dirs and its directories on disk stay as they are.
Untouched(id) ==
    /\ Lookup(id)' = Lookup(id)
    /\ DirsOf(temporary_dirs', id) = DirsOf(temporary_dirs, id)
    /\ \A d \in Range(DirsOf(temporary_dirs, id)) :
            (d \in disk') = (d \in disk)

\* C28: the step in which a cleanup task ends, by running to its end or by
\* cancellation, changes nothing of an execution other than the one the
\* task was made for: no record is taken out of the mapping, no entry out
\* of temporary_dirs and no directory off the disk, also when the task had
\* been left pending by a DELETE and other executions were made later.
C28_TaskRemovesOnlyItsOwn ==
    [][\A i \in DOMAIN cleanup_tasks :
        TaskEnds(i) =>
            \A id \in DOMAIN rs \ {cleanup_tasks[i].rs_id} :
                Untouched(id)]_vars

\* The cleanup task of a deleted execution has run to its end while an
\* execution made later is in the mapping with its directories on disk.
C28_Witness ==
    /\ sd.pc = "idle"
    /\ \E id1, id2 \in DOMAIN rs :
        /\ id1 < id2
        /\ id1 \in deleted
        /\ TaskPc(id1) = "done"
        /\ Lookup(id2)
        /\ DirsOf(temporary_dirs, id2) # <<>>
        /\ Range(DirsOf(temporary_dirs, id2)) \subseteq disk

\* C29: until the server stops, the mapping of executions and
\* temporary_dirs hold the same ids in every state between two steps of the
\* event loop: run_script, DELETE and the expiry of a cleanup task each
\* change both before they suspend or return.
C29_MappingsHaveSameIds ==
    sd.pc = "idle" => Range(running_scripts) = DOMAIN temporary_dirs

\* Before the server stops, one execution has been taken out of both
\* mappings by a DELETE, its cleanup task still pending, and another, made
\* without an upload, is in both.
C29_Witness ==
    /\ sd.pc = "idle"
    /\ \E id1, id2 \in DOMAIN rs :
        /\ id1 \in deleted
        /\ TaskPc(id1) \in {"await_rc", "sleep"}
        /\ ~Lookup(id1) /\ id1 \notin DOMAIN temporary_dirs
        /\ Lookup(id2) /\ id2 \in DOMAIN temporary_dirs
        /\ temporary_dirs[id2] = <<>>

\* The cleanup tasks made for execution id.
TasksOf(id) == {i \in DOMAIN cleanup_tasks : cleanup_tasks[i].rs_id = id}

\* C30: until the server stops, every execution in the mapping has exactly
\* one cleanup task, and that task has not ended, in every state between
\* two steps of the event loop: run_script makes the task in the step that
\* enters the record, and the task ends only in the step that takes the
\* record out.
C30_RecordHasPendingTask ==
    sd.pc = "idle" =>
        \A id \in Range(running_scripts) :
            /\ Cardinality(TasksOf(id)) = 1
            /\ \A i \in TasksOf(id) : Pending(i)

\* Before the server stops, two executions are in the mapping: the task of
\* one has not run yet, the task of the other, whose child has exited, has
\* slept its delay and is about to take the record out.
C30_Witness ==
    /\ sd.pc = "idle"
    /\ \E id1, id2 \in Range(running_scripts) :
        /\ TaskPc(id2) = "new"
        /\ Exited(id1)
        /\ \E i \in TasksOf(id1) :
            /\ cleanup_tasks[i].pc = "sleep"
            /\ cleanup_tasks[i].remaining = 0

=============================================================================
